---- MODULE Spec2Model ----
(***************************************************************************)
(* Session initialisation and wallet auto-connection of the useUser hook   *)
(* (src/src/hooks/useUser.ts).                                             *)
(*                                                                         *)
(* One component instance is mounted.  Every run of the hook's effect is   *)
(* a "resolution attempt": it owns a closure with its own isMounted flag   *)
(* and the values of the wallet signal (walletAddress, isConnected) it was *)
(* created with.  The code between two awaits runs without interruption,   *)
(* so every action below is one such stretch: the settling of an awaited   *)
(* call together with all the synchronous code up to the next await.       *)
(* A change of the wallet signal re-renders the component, which runs the  *)
(* effect's cleanup and then the effect again.                             *)
(***************************************************************************)
EXTENDS Integers, Sequences, FiniteSets, TLC

\* Number of effect runs (resolution attempts) explored.
MaxAttempts == 2

\* Number of connectWallet() calls explored.
MaxCalls == 2

\* JavaScript undefined / null for the optional string-like values.
Undefined == "undefined"
Null == "null"

\* Wallet addresses: a checksummed (mixed-case) one and its lowercase form.
Addresses == {"0xAB", "0xab"}

\* Addresses useAccount() reports (wagmi reports the connector's account).
SignalAddresses == {"0xab"}

\* Bodies of the backend profile (/api/me), and apiUserData?.primaryAddress.
ApiBodies == {"me", "meWithAddress"}
ApiPrimaryAddress(body) == IF body = "meWithAddress" THEN "0xAB" ELSE Undefined

\* String.prototype.toLowerCase on the addresses above.
ToLower(s) == IF s = "0xAB" THEN "0xab" ELSE s

\* a || b on optional strings.
Or(a, b) == IF a # Undefined THEN a ELSE b

\* Host profiles sdk.context may carry (FarcasterUser).
HostUsers == {"alice", "bob"}
FarcasterUser(u) ==
    IF u = "alice"
    THEN [fid |-> "1001", primaryAddress |-> Undefined, username |-> "alice",
          displayName |-> "Alice", pfpUrl |-> "https://pfp/alice",
          location |-> "place:1"]
    ELSE [fid |-> "1002", primaryAddress |-> "0xab", username |-> Undefined,
          displayName |-> Undefined, pfpUrl |-> Undefined, location |-> Null]

Fields == {"address", "fid", "username", "displayName", "pfpUrl", "location",
           "isMiniApp", "isLoading", "isWalletConnected", "error"}

VARIABLES
    userData,        \* the React state of useUser (UserData)
    writer,          \* per field: the attempt whose setUserData wrote it (0: useState)
    mounted,         \* the component is mounted
    current,         \* number of effect runs so far = id of the newest attempt
    att,             \* per attempt: position, closure and locals of initializeUser
    walletAddress,   \* useAccount().address
    isConnected,     \* useAccount().isConnected
    connectPending,  \* number of connect({connector}) calls of useUser in flight
    hasConnector,    \* connectors contains the farcasterMiniApp connector
    last,            \* the detection, identity or wallet call that settled in the
                     \* latest step, and how (NoCall for every other step)
    connectCalls,    \* useFarcasterWallet: per connectWallet() call, its position
    isConnecting,    \* useFarcasterWallet: the isConnecting state
    error,           \* useFarcasterWallet: the error state
    walletConnectPending,  \* number of connect({connector}) calls of
                     \* connectWallet in flight
    returned,        \* the connectWallet() call that returned last, its value
                     \* and what ended it
    kept             \* a connectWallet callback of an earlier render that the
                     \* consumer still holds: the signal that render captured

\* The state of useFarcasterWallet (src/unnamed/part_000).
wvars == <<connectCalls, isConnecting, error, walletConnectPending, returned,
           kept>>

vars == <<userData, writer, mounted, current, att, walletAddress, isConnected,
          connectPending, hasConnector, last, wvars>>

Calls == 1..MaxCalls

NoReturn == [c |-> 0, value |-> "none", cause |-> "none"]
Returned(c, value, cause) == [c |-> c, value |-> value, cause |-> cause]

\* A connectWallet callback: useCallback closes over address and isConnected
\* of the render that created it.
NoCallback == [held |-> FALSE, address |-> Undefined, isConnected |-> FALSE]
Callback(addr, conn) == [held |-> TRUE, address |-> addr, isConnected |-> conn]

Attempts == 1..MaxAttempts

\* useState initial value.
InitialUserData ==
    [address |-> Undefined, fid |-> Undefined, username |-> Undefined,
     displayName |-> Undefined, pfpUrl |-> Undefined, location |-> Undefined,
     isMiniApp |-> FALSE, isLoading |-> TRUE, isWalletConnected |-> FALSE,
     error |-> Undefined]

\* An effect run that has not happened yet.  ready counts the calls of
\* sdk.actions.ready() the attempt has made.
IdleAttempt ==
    [pc |-> "idle", isMounted |-> FALSE,
     walletAddress |-> Undefined, isConnected |-> FALSE,
     farcasterUser |-> Null, apiUserData |-> Null,
     connectedAddress |-> Undefined, ready |-> 0]

\* initializeUser() has returned: its locals and the captured wallet signal are
\* never read again.
Finished(rec) ==
    [IdleAttempt EXCEPT !.pc = "done", !.isMounted = rec.isMounted,
                        !.ready = rec.ready]

\* The effect's cleanup: isMounted = false.  The captured walletAddress is only
\* read under isMounted, so it is dead from here on.
Cleanup(rec) == [rec EXCEPT !.isMounted = FALSE, !.walletAddress = Undefined]

NoCall == [a |-> 0, call |-> "none", result |-> "none"]
Settled(a, call, result) == [a |-> a, call |-> call, result |-> result]

----------------------------------------------------------------------------
\* The records the code passes to setUserData.

HostRecord(u, connectedAddress) ==
    [address |-> connectedAddress,
     fid |-> FarcasterUser(u).fid,
     username |-> FarcasterUser(u).username,
     displayName |-> FarcasterUser(u).displayName,
     pfpUrl |-> FarcasterUser(u).pfpUrl,
     location |-> FarcasterUser(u).location,
     isMiniApp |-> TRUE, isLoading |-> FALSE,
     isWalletConnected |-> (connectedAddress # Undefined),
     error |-> Undefined]

\* Variant: the no-user commit forgets isLoading: false.
NoUserRecordStillLoading ==
    [InitialUserData EXCEPT !.isMiniApp = TRUE,
                            !.error = "Unable to get user data from Farcaster"]

NoUserRecord ==
    [InitialUserData EXCEPT !.isMiniApp = TRUE, !.isLoading = FALSE,
                            !.error = "Unable to get user data from Farcaster"]

AuthFailedRecord ==
    [InitialUserData EXCEPT !.isMiniApp = TRUE, !.isLoading = FALSE,
                            !.error = "Farcaster authentication failed"]

\* Variant: the standalone commit spreads the previous record ({...prev, ...}).
StandaloneRecordSpread(addr, conn) ==
    [userData EXCEPT
        !.address = IF conn /\ addr # Undefined THEN addr ELSE Undefined,
        !.isMiniApp = FALSE,
        !.isLoading = FALSE,
        !.isWalletConnected = conn,
        !.error = Undefined]

StandaloneRecord(addr, conn) ==
    [InitialUserData EXCEPT
        !.address = IF conn /\ addr # Undefined THEN addr ELSE Undefined,
        !.isLoading = FALSE,
        !.isWalletConnected = conn]

\* Variant: the outer catch commits what the standalone branch would.
InitFailedRecordNoError ==
    [InitialUserData EXCEPT !.isLoading = FALSE]

InitFailedRecord ==
    [InitialUserData EXCEPT !.isLoading = FALSE,
                            !.error = "Failed to initialize user data"]

\* setUserData(value): replaces the state; dropped once the component is gone.
SetUserData(a, rec) ==
    IF mounted
    THEN /\ userData' = rec
         /\ writer' = [f \in Fields |-> a]
    ELSE UNCHANGED <<userData, writer>>

\* setUserData(prev => ({...prev, isLoading: true, error: undefined}))
StartLoading(a) ==
    /\ userData' = [userData EXCEPT !.isLoading = TRUE, !.error = Undefined]
    /\ writer' = [writer EXCEPT !.isLoading = a, !.error = a]

HostCommit(a, u, connectedAddress) == SetUserData(a, HostRecord(u, connectedAddress))

\* Variant: the no-user commit is a partial update of the previous record
\* (setUserData(prev => ({...prev, isMiniApp, isLoading, isWalletConnected, error}))).
NoUserCommitSpread(a) ==
    IF mounted
    THEN /\ userData' = [userData EXCEPT
                            !.isMiniApp = TRUE, !.isLoading = FALSE,
                            !.isWalletConnected = FALSE,
                            !.error = "Unable to get user data from Farcaster"]
         /\ writer' = [writer EXCEPT !.isMiniApp = a, !.isLoading = a,
                                     !.isWalletConnected = a, !.error = a]
    ELSE UNCHANGED <<userData, writer>>

NoUserCommit(a) == SetUserData(a, NoUserRecord)
AuthFailedCommit(a) == SetUserData(a, AuthFailedRecord)
StandaloneCommit(a) ==
    SetUserData(a, StandaloneRecord(att[a].walletAddress, att[a].isConnected))
InitFailedCommit(a) == SetUserData(a, InitFailedRecord)

----------------------------------------------------------------------------
\* The effect body: a new closure, then initializeUser() up to its first await.
RunEffect(a, addr, conn, base) ==
    /\ att' = [base EXCEPT ![a] = [IdleAttempt EXCEPT !.pc = "detect",
                                                      !.isMounted = TRUE,
                                                      !.walletAddress = addr,
                                                      !.isConnected = conn]]
    /\ StartLoading(a)

\* A dependency of the effect has changed: the previous effect's cleanup runs
\* and the effect runs again, with the signal values (addr, conn) of the render.
ReRunEffect(addr, conn) ==
    /\ current < MaxAttempts
    /\ current' = current + 1
    /\ RunEffect(current + 1, addr, conn, [att EXCEPT ![current] = Cleanup(@)])

\* The wallet signal takes a new value; a mounted component whose effect has
\* run re-renders and the effect runs again.  Before the first effect run the
\* new value is simply what that run will capture.
SignalUpdate(addr, conn) ==
    /\ walletAddress' = addr
    /\ isConnected' = conn
    /\ IF mounted /\ current >= 1 /\ <<addr, conn>> # <<walletAddress, isConnected>>
       THEN ReRunEffect(addr, conn)
       ELSE UNCHANGED <<current, att, userData, writer>>

Init ==
    /\ userData = InitialUserData
    /\ writer = [f \in Fields |-> 0]
    /\ mounted = TRUE
    /\ current = 0
    /\ att = [a \in Attempts |-> IdleAttempt]
    /\ walletAddress \in SignalAddresses \cup {Undefined}
    /\ isConnected \in BOOLEAN
    /\ connectPending = 0
    /\ hasConnector \in BOOLEAN
    /\ last = NoCall
    /\ connectCalls = [c \in Calls |-> "idle"]
    /\ isConnecting = FALSE
    /\ error = Null
    /\ walletConnectPending = 0
    /\ returned = NoReturn
    /\ kept = NoCallback

\* First run of the effect after the first render.
Mount ==
    /\ mounted
    /\ current = 0
    /\ current' = 1
    /\ RunEffect(1, walletAddress, isConnected, att)
    /\ last' = NoCall
    /\ UNCHANGED <<mounted, walletAddress, isConnected, connectPending, hasConnector>>
    /\ UNCHANGED wvars

\* The component is removed: the cleanup of the last effect runs.
Unmount ==
    /\ mounted
    /\ current >= 1
    /\ mounted' = FALSE
    /\ att' = [att EXCEPT ![current] = Cleanup(@)]
    /\ last' = NoCall
    /\ UNCHANGED <<userData, writer, current, walletAddress, isConnected,
                   connectPending, hasConnector>>
    /\ UNCHANGED wvars

\* An event of the wallet connector that this hook did not ask for.
ExternalWalletEvent(addr, conn) ==
    /\ mounted
    /\ current >= 1
    /\ <<addr, conn>> # <<walletAddress, isConnected>>
    /\ SignalUpdate(addr, conn)
    /\ last' = NoCall
    /\ UNCHANGED <<mounted, connectPending, hasConnector>>
    /\ UNCHANGED wvars

\* useConnect() hands out a new connect or connectors identity (the registry
\* holds the same connectors): the signal is unchanged and the effect runs again.
DependencyChange ==
    /\ mounted
    /\ current >= 1
    /\ ReRunEffect(walletAddress, isConnected)
    /\ last' = NoCall
    /\ UNCHANGED <<mounted, walletAddress, isConnected, connectPending, hasConnector>>
    /\ UNCHANGED wvars

\* A connect({connector}) requested by the hook settles.
ConnectSettles(r) ==
    /\ connectPending > 0
    /\ connectPending' = connectPending - 1
    /\ IF r = "fault"
       THEN UNCHANGED <<walletAddress, isConnected, current, att, userData, writer>>
       ELSE SignalUpdate(r, TRUE)
    /\ last' = NoCall
    /\ UNCHANGED <<mounted, hasConnector>>
    /\ UNCHANGED wvars

\* Variant: on a host detection the wallet request is issued at once, without
\* awaiting sdk.context.
DetectSettlesSkipsContext(a, r) ==
    /\ att[a].pc = "detect"
    /\ IF r = "host"
       THEN /\ att' = [att EXCEPT ![a].pc = "wallet"]
            /\ UNCHANGED <<userData, writer>>
       ELSE /\ att' = [att EXCEPT ![a] = Finished(@)]
            /\ IF att[a].isMounted
               THEN IF r = "standalone" THEN StandaloneCommit(a)
                                        ELSE InitFailedCommit(a)
               ELSE UNCHANGED <<userData, writer>>
    /\ last' = Settled(a, "detect", r)
    /\ UNCHANGED <<mounted, current, walletAddress, isConnected, connectPending,
                   hasConnector>>
    /\ UNCHANGED wvars

\* await sdk.isInMiniApp() settles.
DetectSettles(a, r) ==
    /\ att[a].pc = "detect"
    /\ IF r = "host"
       THEN /\ att' = [att EXCEPT ![a].pc = "context"]
            /\ UNCHANGED <<userData, writer>>
       ELSE /\ att' = [att EXCEPT ![a] = Finished(@)]
            /\ IF att[a].isMounted
               THEN IF r = "standalone" THEN StandaloneCommit(a)
                                        ELSE InitFailedCommit(a)
               ELSE UNCHANGED <<userData, writer>>
    /\ last' = Settled(a, "detect", r)
    /\ UNCHANGED <<mounted, current, walletAddress, isConnected, connectPending,
                   hasConnector>>
    /\ UNCHANGED wvars

\* Variant: sdk.actions.ready() is called after the if/else on farcasterUser
\* instead of inside its first branch.
ContextSettlesReadyOutsideIf(a, r) ==
    /\ att[a].pc = "context"
    /\ IF r = "fault"
       THEN /\ att' = [att EXCEPT ![a] = Finished(@)]
            /\ IF att[a].isMounted THEN AuthFailedCommit(a)
                                   ELSE UNCHANGED <<userData, writer>>
       ELSE IF r # Null /\ att[a].isMounted
       THEN /\ att' = [att EXCEPT ![a].pc = "fetch", ![a].farcasterUser = r]
            /\ UNCHANGED <<userData, writer>>
       ELSE /\ att' = [att EXCEPT ![a] = Finished([@ EXCEPT !.ready = @ + 1])]
            /\ IF att[a].isMounted THEN NoUserCommit(a)
                                   ELSE UNCHANGED <<userData, writer>>
    /\ last' = Settled(a, "context", r)
    /\ UNCHANGED <<mounted, current, walletAddress, isConnected, connectPending,
                   hasConnector>>
    /\ UNCHANGED wvars

\* await sdk.context settles.
ContextSettles(a, r) ==
    /\ att[a].pc = "context"
    /\ IF r = "fault"
       THEN /\ att' = [att EXCEPT ![a] = Finished(@)]
            /\ IF att[a].isMounted THEN AuthFailedCommit(a)
                                   ELSE UNCHANGED <<userData, writer>>
       ELSE IF r # Null /\ att[a].isMounted
       THEN /\ att' = [att EXCEPT ![a].pc = "fetch", ![a].farcasterUser = r]
            /\ UNCHANGED <<userData, writer>>
       ELSE /\ att' = [att EXCEPT ![a] = Finished(@)]
            /\ IF att[a].isMounted THEN NoUserCommit(a)
                                   ELSE UNCHANGED <<userData, writer>>
    /\ last' = Settled(a, "context", r)
    /\ UNCHANGED <<mounted, current, walletAddress, isConnected, connectPending,
                   hasConnector>>
    /\ UNCHANGED wvars

\* farcasterUser.primaryAddress || apiUserData?.primaryAddress
AddressHint(u, apiUserData) ==
    Or(FarcasterUser(u).primaryAddress,
       IF apiUserData = Null THEN Undefined ELSE ApiPrimaryAddress(apiUserData))

\* The hint, then the auto-connect step up to its await (or, without a
\* provider, straight to the commit and the readiness signal).  rec is the
\* attempt after the backend step.
WalletStep(a, rec, hasProvider) ==
    LET hint == AddressHint(rec.farcasterUser, rec.apiUserData)
    IN  IF hasProvider
        THEN /\ att' = [att EXCEPT ![a] = [rec EXCEPT !.connectedAddress = hint,
                                                      !.pc = "wallet"]]
             /\ UNCHANGED <<userData, writer>>
        ELSE /\ att' = [att EXCEPT ![a] = Finished([rec EXCEPT !.ready = @ + 1])]
             /\ HostCommit(a, rec.farcasterUser, hint)

\* await sdk.quickAuth.fetch("/api/me") settles.
FetchSettles(a, r, hasProvider) ==
    /\ att[a].pc = "fetch"
    /\ IF r = "ok"
       THEN /\ att' = [att EXCEPT ![a].pc = "json"]
            /\ UNCHANGED <<userData, writer>>
       ELSE WalletStep(a, att[a], hasProvider)
    /\ last' = NoCall
    /\ UNCHANGED <<mounted, current, walletAddress, isConnected, connectPending,
                   hasConnector>>
    /\ UNCHANGED wvars

\* await res.json() settles.
JsonSettles(a, r, hasProvider) ==
    /\ att[a].pc = "json"
    /\ IF r = "fault"
       THEN WalletStep(a, att[a], hasProvider)
       ELSE WalletStep(a, [att[a] EXCEPT !.apiUserData = r], hasProvider)
    /\ last' = NoCall
    /\ UNCHANGED <<mounted, current, walletAddress, isConnected, connectPending,
                   hasConnector>>
    /\ UNCHANGED wvars

\* What ethProvider.request({method: 'eth_requestAccounts'}) can settle with.
WalletOutcomes ==
    {[kind |-> "reject", accounts |-> <<>>]} \cup
    {[kind |-> "resolve", accounts |-> s] :
        s \in {<<>>} \cup {<<x>> : x \in Addresses}
                     \cup {s \in Addresses \X Addresses : s[1] # s[2]}}

\* Variant: connect({connector}) is requested whether or not the signal
\* reported connected when the attempt started.
WalletSettlesAlwaysConnects(a, o) ==
    /\ att[a].pc = "wallet"
    /\ LET got == o.kind = "resolve" /\ Len(o.accounts) > 0
           connectedAddress == IF got THEN o.accounts[1] ELSE att[a].connectedAddress
           doConnect == got /\ hasConnector
       IN  /\ att' = [att EXCEPT ![a] = Finished([@ EXCEPT !.ready = @ + 1])]
           /\ connectPending' = connectPending + (IF doConnect THEN 1 ELSE 0)
           /\ HostCommit(a, att[a].farcasterUser, connectedAddress)
           /\ last' = Settled(a, "wallet",
                              IF o.kind = "reject" THEN "reject"
                              ELSE IF got THEN o.accounts[1] ELSE "empty")
    /\ UNCHANGED <<mounted, current, walletAddress, isConnected, hasConnector>>
    /\ UNCHANGED wvars

\* await ethProvider.request(...) settles; then the commit and sdk.actions.ready().
WalletSettles(a, o) ==
    /\ att[a].pc = "wallet"
    /\ LET got == o.kind = "resolve" /\ Len(o.accounts) > 0
           connectedAddress == IF got THEN o.accounts[1] ELSE att[a].connectedAddress
           doConnect == got /\ hasConnector /\ ~att[a].isConnected
       IN  /\ att' = [att EXCEPT ![a] = Finished([@ EXCEPT !.ready = @ + 1])]
           /\ connectPending' = connectPending + (IF doConnect THEN 1 ELSE 0)
           /\ HostCommit(a, att[a].farcasterUser, connectedAddress)
           /\ last' = Settled(a, "wallet",
                              IF o.kind = "reject" THEN "reject"
                              ELSE IF got THEN o.accounts[1] ELSE "empty")
    /\ UNCHANGED <<mounted, current, walletAddress, isConnected, hasConnector>>
    /\ UNCHANGED wvars

Next ==
    \/ Mount
    \/ Unmount
    \/ DependencyChange
    \/ \E addr \in SignalAddresses \cup {Undefined}, conn \in BOOLEAN :
          ExternalWalletEvent(addr, conn)
    \/ \E r \in SignalAddresses \cup {"fault"} : ConnectSettles(r)
    \/ \E a \in Attempts, r \in {"host", "standalone", "fault"} : DetectSettles(a, r)
    \/ \E a \in Attempts, r \in HostUsers \cup {Null, "fault"} : ContextSettles(a, r)
    \/ \E a \in Attempts, r \in {"ok", "notok", "fault"}, p \in BOOLEAN :
          FetchSettles(a, r, p)
    \/ \E a \in Attempts, r \in ApiBodies \cup {"fault"}, p \in BOOLEAN :
          JsonSettles(a, r, p)
    \/ \E a \in Attempts, o \in WalletOutcomes : WalletSettles(a, o)

Spec == Init /\ [][Next]_vars

----------------------------------------------------------------------------
\* useUser left to itself: the component stays mounted, no connector event
\* arrives from outside, and every call that is awaited settles.
NextQuiesce ==
    \/ Mount
    \/ \E r \in SignalAddresses \cup {"fault"} : ConnectSettles(r)
    \/ \E a \in Attempts, r \in {"host", "standalone", "fault"} : DetectSettles(a, r)
    \/ \E a \in Attempts, r \in HostUsers \cup {Null, "fault"} : ContextSettles(a, r)
    \/ \E a \in Attempts, r \in {"ok", "notok", "fault"}, p \in BOOLEAN :
          FetchSettles(a, r, p)
    \/ \E a \in Attempts, r \in ApiBodies \cup {"fault"}, p \in BOOLEAN :
          JsonSettles(a, r, p)
    \/ \E a \in Attempts, o \in WalletOutcomes : WalletSettles(a, o)

Fairness ==
    /\ WF_vars(Mount)
    /\ WF_vars(\E r \in SignalAddresses \cup {"fault"} : ConnectSettles(r))
    /\ \A a \in Attempts :
          /\ WF_vars(\E r \in {"host", "standalone", "fault"} : DetectSettles(a, r))
          /\ WF_vars(\E r \in HostUsers \cup {Null, "fault"} : ContextSettles(a, r))
          /\ WF_vars(\E r \in {"ok", "notok", "fault"}, p \in BOOLEAN :
                        FetchSettles(a, r, p))
          /\ WF_vars(\E r \in ApiBodies \cup {"fault"}, p \in BOOLEAN :
                        JsonSettles(a, r, p))
          /\ WF_vars(\E o \in WalletOutcomes : WalletSettles(a, o))

SpecQuiesce == Init /\ [][NextQuiesce]_vars /\ Fairness

----------------------------------------------------------------------------
\* useFarcasterWallet: connectWallet().

\* The state of useUser and of the wallet signal.
uvars == <<userData, writer, mounted, current, att, walletAddress, isConnected,
           connectPending, hasConnector>>

\* What an awaited call of connectWallet can throw: an Error, or another value.
Thrown == {"Error", "other"}

\* err instanceof Error ? err.message : 'Failed to connect wallet'
ErrorText(t) ==
    IF t = "Error" THEN "User rejected the request" ELSE "Failed to connect wallet"

\* Variant: the call returns null and leaves isConnecting as it is.
ReturnNullKeepsConnecting(c, text, cause) ==
    /\ connectCalls' = [connectCalls EXCEPT ![c] = "done"]
    /\ error' = text
    /\ UNCHANGED isConnecting
    /\ returned' = Returned(c, Null, cause)
    /\ UNCHANGED walletConnectPending

\* setError(text); setIsConnecting(false); return null
ReturnNull(c, text, cause) ==
    /\ connectCalls' = [connectCalls EXCEPT ![c] = "done"]
    /\ error' = text
    /\ isConnecting' = FALSE
    /\ returned' = Returned(c, Null, cause)
    /\ UNCHANGED walletConnectPending

\* The consumer keeps a reference to the connectWallet callback of the current
\* render (a handler that is running, a value stored in a ref).
KeepCallback ==
    /\ \E c \in Calls : connectCalls[c] = "idle"
    /\ kept # Callback(walletAddress, isConnected)
    /\ kept' = Callback(walletAddress, isConnected)
    /\ UNCHANGED <<connectCalls, isConnecting, error, walletConnectPending, returned>>
    /\ last' = NoCall
    /\ UNCHANGED uvars

\* connectWallet() is called, through the callback of the latest render or
\* (stale) through the one the consumer kept: the already-connected check on
\* the values the callback captured, then up to the first await.  Calls are
\* numbered in the order they are made.
ConnectWallet(c, stale) ==
    /\ connectCalls[c] = "idle"
    /\ c > 1 => connectCalls[c - 1] # "idle"
    /\ stale => kept.held
    /\ LET cb == IF stale THEN kept ELSE Callback(walletAddress, isConnected)
       IN  IF cb.isConnected /\ cb.address # Undefined
           THEN /\ connectCalls' = [connectCalls EXCEPT ![c] = "done"]
                /\ returned' = Returned(c, cb.address, "connected")
                /\ UNCHANGED <<isConnecting, error>>
           ELSE /\ connectCalls' = [connectCalls EXCEPT ![c] = "detect"]
                /\ isConnecting' = TRUE
                /\ error' = Null
                /\ returned' = NoReturn
    /\ UNCHANGED <<walletConnectPending, kept>>
    /\ last' = NoCall
    /\ UNCHANGED uvars

\* await sdk.isInMiniApp() of connectWallet settles; r is "host" (true),
\* "standalone" (false) or a thrown value, hasProvider tells whether
\* sdk.wallet.ethProvider is set.
WalletDetectSettles(c, r, hasProvider) ==
    /\ connectCalls[c] = "detect"
    /\ IF r \in Thrown THEN ReturnNull(c, ErrorText(r), "fault")
       ELSE IF r = "standalone"
       THEN ReturnNull(c, "Not running in a Farcaster miniapp", "standalone")
       ELSE IF ~hasProvider
       THEN ReturnNull(c, "Farcaster wallet provider not available",
                       "noProvider")
       ELSE /\ connectCalls' = [connectCalls EXCEPT ![c] = "request"]
            /\ returned' = NoReturn
            /\ UNCHANGED <<isConnecting, error, walletConnectPending>>
    /\ UNCHANGED kept
    /\ last' = NoCall
    /\ UNCHANGED uvars

\* Variant: connect({connector}) is requested before the accounts are examined.
WalletRequestSettlesConnectsFirst(c, o, t) ==
    /\ connectCalls[c] = "request"
    /\ IF o.kind = "reject" THEN /\ ReturnNull(c, ErrorText(t), "reject")
                                 /\ UNCHANGED uvars
       ELSE IF Len(o.accounts) = 0
       THEN /\ connectCalls' = [connectCalls EXCEPT ![c] = "done"]
            /\ error' = "No accounts returned from wallet"
            /\ isConnecting' = FALSE
            /\ returned' = Returned(c, Null, "empty")
            /\ walletConnectPending' =
                  walletConnectPending + (IF hasConnector THEN 1 ELSE 0)
            /\ UNCHANGED uvars
       ELSE /\ connectCalls' = [connectCalls EXCEPT ![c] = "done"]
            /\ walletConnectPending' =
                  walletConnectPending + (IF hasConnector THEN 1 ELSE 0)
            /\ isConnecting' = FALSE
            /\ returned' = Returned(c, o.accounts[1], "accounts")
            /\ UNCHANGED error
            /\ UNCHANGED uvars
    /\ UNCHANGED kept
    /\ last' = NoCall

\* await ethProvider.request({method: 'eth_requestAccounts'}) of connectWallet
\* settles with outcome o (t is the value thrown by a rejection).
WalletRequestSettles(c, o, t) ==
    /\ connectCalls[c] = "request"
    /\ IF o.kind = "reject" THEN /\ ReturnNull(c, ErrorText(t), "reject")
                                 /\ UNCHANGED uvars
       ELSE IF Len(o.accounts) = 0
       THEN /\ ReturnNull(c, "No accounts returned from wallet", "empty")
            /\ UNCHANGED uvars
       ELSE /\ connectCalls' = [connectCalls EXCEPT ![c] = "done"]
            /\ walletConnectPending' =
                  walletConnectPending + (IF hasConnector THEN 1 ELSE 0)
            /\ isConnecting' = FALSE
            /\ returned' = Returned(c, o.accounts[1], "accounts")
            /\ UNCHANGED error
            /\ UNCHANGED uvars
    /\ UNCHANGED kept
    /\ last' = NoCall

\* Variant: the settled activation changes the signal and nothing re-renders.
WalletConnectSettlesNoRerun(r) ==
    /\ walletConnectPending > 0
    /\ walletConnectPending' = walletConnectPending - 1
    /\ IF r = "fault"
       THEN UNCHANGED <<walletAddress, isConnected, current, att, userData, writer>>
       ELSE /\ walletAddress' = r
            /\ isConnected' = TRUE
            /\ UNCHANGED <<current, att, userData, writer>>
    /\ last' = NoCall
    /\ UNCHANGED <<mounted, connectPending, hasConnector>>
    /\ UNCHANGED <<connectCalls, isConnecting, error, returned, kept>>

\* A connect({connector}) requested by connectWallet settles.
WalletConnectSettles(r) ==
    /\ walletConnectPending > 0
    /\ walletConnectPending' = walletConnectPending - 1
    /\ IF r = "fault"
       THEN UNCHANGED <<walletAddress, isConnected, current, att, userData, writer>>
       ELSE SignalUpdate(r, TRUE)
    /\ last' = NoCall
    /\ UNCHANGED <<mounted, connectPending, hasConnector>>
    /\ UNCHANGED <<connectCalls, isConnecting, error, returned, kept>>

\* useUser and useFarcasterWallet side by side in one mounted application.
\* The backend profile is left out here (the fetch fails), and one host profile
\* stands for all.
NextWallet ==
    \/ Mount
    \/ \E r \in SignalAddresses \cup {"fault"} : ConnectSettles(r)
    \/ \E a \in Attempts, r \in {"host", "standalone", "fault"} : DetectSettles(a, r)
    \/ \E a \in Attempts, r \in {"bob", Null, "fault"} : ContextSettles(a, r)
    \/ \E a \in Attempts, p \in BOOLEAN : FetchSettles(a, "fault", p)
    \/ \E a \in Attempts, o \in WalletOutcomes : WalletSettles(a, o)
    \/ KeepCallback
    \/ \E c \in Calls, stale \in BOOLEAN : ConnectWallet(c, stale)
    \/ \E c \in Calls, r \in {"host", "standalone"} \cup Thrown,
                       p \in BOOLEAN :
          WalletDetectSettles(c, r, p)
    \/ \E c \in Calls, o \in WalletOutcomes, t \in Thrown :
          WalletRequestSettles(c, o, t)
    \/ \E r \in SignalAddresses \cup {"fault"} : WalletConnectSettles(r)

SpecWallet == Init /\ [][NextWallet]_vars

----------------------------------------------------------------------------
\* Vocabulary of the properties.

\* Every field of the record was last written by attempt a.
WrittenBy(a) == \A f \in Fields : writer[f] = a

\* The identity fields of record r are all absent.
IdentityAbsent(r) ==
    /\ r.fid = Undefined
    /\ r.username = Undefined
    /\ r.displayName = Undefined
    /\ r.pfpUrl = Undefined
    /\ r.location = Undefined

\* The identity fields of record r are those of host profile u.
IdentityOf(r, u) ==
    /\ r.fid = FarcasterUser(u).fid
    /\ r.username = FarcasterUser(u).username
    /\ r.displayName = FarcasterUser(u).displayName
    /\ r.pfpUrl = FarcasterUser(u).pfpUrl
    /\ r.location = FarcasterUser(u).location

\* Attempt a is between its start and its return.
InFlight(a) == att[a].pc \notin {"idle", "done"}

----------------------------------------------------------------------------
\* C1: every write to the record is made by an attempt that is live (its
\* effect has not been cleaned up) when it writes; a cancelled attempt whose
\* pending call settles later writes nothing.
C1_OnlyLiveAttemptWrites ==
    [][\A f \in Fields :
          writer'[f] # writer[f] => att'[writer'[f]].isMounted]_vars

\* C2: sdk.actions.ready() is only ever called by an attempt that is live at
\* the moment of the call.
C2_ReadyOnlyByLiveAttempt ==
    [][\A a \in Attempts :
          att'[a].ready # att[a].ready => att[a].isMounted]_vars

\* C3: an attempt calls ready at most once, only on the host path after a
\* profile was obtained (never after a standalone detection or a failed
\* resolution), and when it does the record of the still mounted component
\* holds that attempt's commit: environment HOST, identity present, not
\* loading, no error.
C3_ReadyOnceAfterHostCommit ==
    [][\A a \in Attempts :
          att'[a].ready # att[a].ready =>
             /\ att[a].ready = 0
             /\ att'[a].ready = 1
             /\ att[a].pc \in {"fetch", "json", "wallet"}
             /\ att[a].farcasterUser # Null
             /\ mounted =>
                  /\ WrittenBy(a)'
                  /\ userData'.isMiniApp
                  /\ IdentityOf(userData', att[a].farcasterUser)
                  /\ ~userData'.isLoading
                  /\ userData'.error = Undefined]_vars

\* Attempt a has just signalled ready, and its host commit is the record.
C3_Witness ==
    \E a \in Attempts :
        /\ att[a].ready = 1
        /\ last.a = a /\ last.call = "wallet"
        /\ WrittenBy(a)
        /\ userData.isMiniApp
        /\ userData.fid # Undefined
        /\ ~userData.isLoading

\* C4: while the live attempt is in flight the record is loading, loading
\* turns false only in the step in which the live attempt reaches its
\* terminal state, and an error is only ever set together with loading=false.
C4_LoadingUntilOwnTerminal ==
    /\ [](userData.error # Undefined => ~userData.isLoading)
    /\ [](\A a \in Attempts :
             att[a].isMounted /\ InFlight(a) => userData.isLoading)
    /\ [][userData.isLoading /\ ~userData'.isLoading =>
             \E a \in Attempts :
                att[a].isMounted /\ InFlight(a) /\ att'[a].pc = "done"]_vars

\* C5 (as claimed): no state mixes fields written by two different attempts.
C5_FieldsFromOneAttempt ==
    \A f, g \in Fields :
        writer[f] # 0 /\ writer[g] # 0 => writer[f] = writer[g]

\* C5 (amended): the data fields always come from one writer, loading and
\* error from one writer, and once loading is false all fields come from the
\* same attempt; mixing happens only while loading is true.
C5_SettledRecordFromOneAttempt ==
    /\ \A f, g \in Fields \ {"isLoading", "error"} : writer[f] = writer[g]
    /\ writer["isLoading"] = writer["error"]
    /\ ~userData.isLoading => \A f, g \in Fields : writer[f] = writer[g]

\* A new attempt has set loading over the data an earlier attempt committed.
C5_Witness ==
    /\ userData.isLoading
    /\ writer["isLoading"] = 2
    /\ writer["address"] = 1
    /\ userData.fid # Undefined

\* C6: a record whose environment is standalone carries no identity field.
C6_StandaloneHasNoIdentity ==
    ~userData.isMiniApp => IdentityAbsent(userData)

\* A standalone commit of attempt 2 has replaced a host-mode result.
C6_Witness ==
    /\ att[1].ready = 1
    /\ WrittenBy(2)
    /\ last = Settled(2, "detect", "standalone")
    /\ ~userData.isMiniApp
    /\ ~userData.isLoading

\* C7: isWalletConnected is true exactly when address is set.
C7_ConnectedIffAddress ==
    userData.isWalletConnected <=> (userData.address # Undefined)

\* C8: a live host attempt whose profile has no primary address, whose
\* backend fetch failed and whose wallet request returned account x leaves
\* the record HOST, identity of the profile, address = lowercase(x),
\* connected, not loading, no error, and has signalled ready exactly once.
C8_ScenarioA ==
    [][\A a \in Attempts :
          ( /\ att[a].pc = "wallet"
            /\ att[a].isMounted
            /\ FarcasterUser(att[a].farcasterUser).primaryAddress = Undefined
            /\ att[a].apiUserData = Null
            /\ last'.a = a /\ last'.call = "wallet"
            /\ last'.result \in Addresses )
          =>
          ( /\ WrittenBy(a)'
            /\ userData'.isMiniApp
            /\ IdentityOf(userData', att[a].farcasterUser)
            /\ userData'.address = ToLower(last'.result)
            /\ userData'.isWalletConnected
            /\ ~userData'.isLoading
            /\ userData'.error = Undefined
            /\ att'[a].ready = 1 )]_vars

\* C9: a live host attempt whose wallet request throws leaves
\* identity populated, address absent, not connected, not loading, an error
\* set, and has signalled ready.
C9_ScenarioD ==
    [][\A a \in Attempts :
          ( /\ att[a].pc = "wallet"
            /\ att[a].isMounted
            /\ last' = Settled(a, "wallet", "reject") )
          =>
          ( /\ IdentityOf(userData', att[a].farcasterUser)
            /\ userData'.address = Undefined
            /\ ~userData'.isWalletConnected
            /\ ~userData'.isLoading
            /\ userData'.error # Undefined
            /\ att'[a].ready = 1 )]_vars

\* C10: when sdk.context carries no user, the attempt returns at once: it
\* never reaches the backend fetch or the wallet request and never signals
\* ready (a returned attempt does nothing more), and a live attempt leaves
\* the record not loading, with the identity-unavailable error, without
\* identity and without address.
C10_NoUserIsTerminal ==
    [][\A a \in Attempts :
          /\ ( /\ att[a].pc = "context"
               /\ last' = Settled(a, "context", Null) )
             =>
             ( /\ att'[a].pc = "done"
               /\ att'[a].ready = 0
               /\ connectPending' = connectPending
               /\ att[a].isMounted =>
                    /\ WrittenBy(a)'
                    /\ ~userData'.isLoading
                    /\ userData'.error = "Unable to get user data from Farcaster"
                    /\ IdentityAbsent(userData')
                    /\ userData'.address = Undefined
                    /\ ~userData'.isWalletConnected )
          /\ att[a].pc = "done" =>
                att'[a].pc = "done" /\ att'[a].ready = att[a].ready]_vars

\* A live attempt has just committed the no-user record.
C10_Witness ==
    \E a \in Attempts :
        /\ last = Settled(a, "context", Null)
        /\ att[a].isMounted
        /\ WrittenBy(a)
        /\ userData.error = "Unable to get user data from Farcaster"

----------------------------------------------------------------------------
\* The step in which live attempt a's detection call threw.
DetectFaulted(a) ==
    /\ mounted
    /\ att[a].isMounted
    /\ att[a].pc = "detect"
    /\ att'[a].pc = "done"
    /\ last' = Settled(a, "detect", "fault")

\* C11 (as claimed): when the detection call of a live attempt throws, the
\* attempt resolves like a standalone one: environment STANDALONE, not loading,
\* address and walletConnected as the wallet signal reports them.
C11_DetectFaultDegrades ==
    [][\A a \in Attempts :
          DetectFaulted(a) =>
             /\ ~userData'.isMiniApp
             /\ ~userData'.isLoading
             /\ userData'.isWalletConnected = att[a].isConnected
             /\ userData'.address =
                   IF att[a].isConnected THEN att[a].walletAddress
                                         ELSE Undefined]_vars

\* C11 (amended): when the detection call of a live attempt throws, the attempt
\* ends failed: the record is replaced by environment STANDALONE, loading
\* false, error "Failed to initialize user data", no identity, address absent
\* and walletConnected false whatever the wallet signal reports, and ready is
\* not called.
C11_DetectFaultFails ==
    [][\A a \in Attempts :
          DetectFaulted(a) =>
             /\ WrittenBy(a)'
             /\ ~userData'.isMiniApp
             /\ ~userData'.isLoading
             /\ userData'.error = "Failed to initialize user data"
             /\ IdentityAbsent(userData')
             /\ userData'.address = Undefined
             /\ ~userData'.isWalletConnected
             /\ att'[a].ready = 0]_vars

\* A detection fault has just ended an attempt while the signal reports a
\* connected wallet with an address.
C11_Witness ==
    /\ mounted
    /\ last.call = "detect" /\ last.result = "fault"
    /\ WrittenBy(last.a)
    /\ isConnected /\ walletAddress # Undefined
    /\ userData.error = "Failed to initialize user data"


----------------------------------------------------------------------------
\* The step in which attempt a, holding a profile, commits without an account
\* from a live request: no provider (the commit follows the backend step
\* directly), or the request returned no account or was rejected.
NoWalletObtained(a) ==
    /\ mounted
    /\ att'[a].ready = att[a].ready + 1
    /\ \/ att[a].pc \in {"fetch", "json"}
       \/ /\ att[a].pc = "wallet"
          /\ last'.result \in {"reject", "empty"}

\* C12: a host attempt with a profile that obtains no account from a live
\* request commits address absent, walletConnected false and no error,
\* whatever primary-address hint the host or backend profile carries.
C12_NoWalletNoAddress ==
    [][\A a \in Attempts :
          NoWalletObtained(a) =>
             /\ userData'.address = Undefined
             /\ ~userData'.isWalletConnected
             /\ userData'.error = Undefined]_vars

----------------------------------------------------------------------------
\* The order of the awaited calls of one attempt: each pair is a call whose
\* result is known and the call (or the return) that follows it.
StepOrder ==
    {<<"idle", "detect">>,
     <<"detect", "context">>, <<"detect", "done">>,
     <<"context", "fetch">>, <<"context", "done">>,
     <<"fetch", "json">>, <<"fetch", "wallet">>, <<"fetch", "done">>,
     <<"json", "wallet">>, <<"json", "done">>,
     <<"wallet", "done">>}

\* C16: within one attempt the steps happen in the order detection, identity
\* fetch, backend fetch, wallet request, commit, ready, each started only when
\* the previous call has settled: the wallet request is only outstanding with
\* the identity result in hand, and ready is called only in the step that ends
\* the attempt after the backend or wallet step, when the commit of that step
\* (on a mounted component) has been made.
C16_StepsInOrder ==
    [][\A a \in Attempts :
          /\ att'[a].pc # att[a].pc => <<att[a].pc, att'[a].pc>> \in StepOrder
          /\ att'[a].pc = "wallet" => att'[a].farcasterUser # Null
          /\ att'[a].pc \in {"fetch", "json"} => att'[a].farcasterUser # Null
          /\ att'[a].ready # att[a].ready =>
                /\ att[a].pc \in {"fetch", "json", "wallet"}
                /\ att'[a].pc = "done"
                /\ mounted =>
                     /\ WrittenBy(a)'
                     /\ userData'.isMiniApp
                     /\ ~userData'.isLoading]_vars

\* An attempt has gone through every step: its wallet request has just
\* returned an account, the commit carries it and ready has been called.
C16_Witness ==
    \E a \in Attempts :
        /\ att[a].pc = "done"
        /\ att[a].ready = 1
        /\ last = Settled(a, "wallet", "0xAB")
        /\ userData.address = "0xAB"
        /\ userData.username # Undefined

----------------------------------------------------------------------------
\* C17: a live attempt that was started with the wallet signal reporting a
\* connected address never has an eth_requestAccounts request outstanding, and
\* the record it commits on the host path carries that connected address.
C17_ConnectedSkipsRequest ==
    [][\A a \in Attempts :
          (att[a].isMounted /\ att[a].isConnected
                            /\ att[a].walletAddress # Undefined) =>
             /\ att'[a].pc # "wallet"
             /\ (mounted /\ att'[a].ready # att[a].ready) =>
                   userData'.address = att[a].walletAddress]_vars

----------------------------------------------------------------------------
\* Call c of connectWallet() is made in this step.
Called(c) == connectCalls[c] = "idle" /\ connectCalls'[c] # "idle"

\* Call c of connectWallet() returns in this step.
Returns(c) == connectCalls[c] # "done" /\ connectCalls'[c] = "done"

\* Call c has passed the already-connected check and has not returned.
Connecting(c) == connectCalls[c] \in {"detect", "request"}

\* C13: connectWallet() called while the wallet signal reports connected with
\* an address returns that address at once: no host check and no
\* eth_requestAccounts request is made, no connector activation is requested,
\* and isConnecting and error stay as they are.
C13_ConnectedCallShortCircuits ==
    [][\A c \in Calls :
          (Called(c) /\ isConnected /\ walletAddress # Undefined) =>
             /\ connectCalls'[c] = "done"
             /\ returned' = Returned(c, walletAddress, "connected")
             /\ isConnecting' = isConnecting
             /\ error' = error
             /\ walletConnectPending' = walletConnectPending
             /\ UNCHANGED uvars]_vars

\* C14: a connectWallet() call that ends because the host check is negative,
\* the provider is unavailable, the request returns no account or the user
\* declines returns null (it never throws: every way out of an awaited call is
\* a return), requests no connector activation, leaves isConnecting false and
\* sets the error text of its cause.
C14_NoWalletReturnsNull ==
    [][\A c \in Calls :
          Returns(c) =>
             /\ returned'.c = c
             /\ returned'.cause \in
                   {"standalone", "noProvider", "empty", "reject", "fault"} =>
                   /\ returned'.value = Null
                   /\ ~isConnecting'
                   /\ error' # Null
                   /\ walletConnectPending' = walletConnectPending
                   /\ connectPending' = connectPending
             /\ returned'.cause = "standalone" =>
                   error' = "Not running in a Farcaster miniapp"
             /\ returned'.cause = "noProvider" =>
                   error' = "Farcaster wallet provider not available"
             /\ returned'.cause = "empty" =>
                   error' = "No accounts returned from wallet"
             /\ returned'.cause \in {"reject", "fault"} =>
                   error' \in {ErrorText(t) : t \in Thrown}]_vars

\* A call has just returned null after the user declined the request.
C14_Witness ==
    /\ returned.c # 0
    /\ returned.cause = "reject"
    /\ returned.value = Null
    /\ connectCalls[returned.c] = "done"
    /\ ~isConnecting
    /\ error = ErrorText("Error")

----------------------------------------------------------------------------
\* A step of useFarcasterWallet: of a connectWallet() call, or the settling of
\* a connector activation that a call requested.
WalletHookStep == wvars' # wvars

\* C15 (as claimed): nothing that a connectWallet() call does or causes
\* changes the useUser record or its resolution state.
C15_CallLeavesSessionAlone ==
    [][WalletHookStep => UNCHANGED <<userData, writer, current, att>>]_vars

\* C15 (amended): the steps of a connectWallet() call itself change only
\* isConnecting, error and the pending activation, never the useUser record,
\* its attempts or the wallet signal; but when the activation requested by a
\* successful call settles with a new signal value, the effect of useUser (if
\* it has run) is cleaned up and run again: a new attempt starts and the record
\* is loading.
C15_OnlySettledConnectReachesSession ==
    [][/\ (connectCalls' # connectCalls \/ isConnecting' # isConnecting
             \/ error' # error \/ returned' # returned) => UNCHANGED uvars
       /\ walletConnectPending' < walletConnectPending =>
             \/ UNCHANGED uvars
             \/ /\ current = 0
                /\ isConnected'
                /\ UNCHANGED <<userData, writer, current, att, mounted,
                               connectPending, hasConnector>>
             \/ /\ current >= 1
                /\ <<walletAddress', isConnected'>> # <<walletAddress, isConnected>>
                /\ isConnected'
                /\ UNCHANGED <<mounted, connectPending, hasConnector>>
                /\ current' = current + 1
                /\ att'[current'].pc = "detect"
                /\ att'[current'].isMounted
                /\ ~att'[current].isMounted
                /\ \A a \in Attempts \ {current, current'} : att'[a] = att[a]
                /\ userData' = [userData EXCEPT !.isLoading = TRUE,
                                                !.error = Undefined]]_vars

\* A first attempt resolved standalone (so useUser requested no activation), a
\* connectWallet() call obtained an account, and the signal now reports
\* connected with a second attempt under way and the record loading again.
C15_Witness ==
    /\ ~userData.isMiniApp
    /\ writer["isMiniApp"] = 1
    /\ userData.isLoading
    /\ current = 2
    /\ att[1].pc = "done" /\ att[1].ready = 0
    /\ att[2].pc = "detect"
    /\ isConnected
    /\ walletConnectPending = 0
    /\ \E c \in Calls : connectCalls[c] = "done"

----------------------------------------------------------------------------
\* C18: the wallet signal changes only when a connector activation requested
\* by useUser or by connectWallet settles, and an activation is requested only
\* in the step in which an eth_requestAccounts request of the host provider
\* returned at least one account: the wallet step of a useUser attempt that
\* holds a profile (with the connector present and the attempt started
\* unconnected), or the request step of a connectWallet() call.
C18_ConnectOnlyAfterAccounts ==
    [][/\ <<walletAddress', isConnected'>> # <<walletAddress, isConnected>> =>
             \/ connectPending' = connectPending - 1
             \/ walletConnectPending' = walletConnectPending - 1
       /\ connectPending' > connectPending =>
             \E a \in Attempts :
                /\ att[a].pc = "wallet"
                /\ att[a].farcasterUser # Null
                /\ att'[a].pc = "done"
                /\ last'.a = a /\ last'.call = "wallet"
                /\ last'.result \in Addresses
                /\ hasConnector
                /\ ~att[a].isConnected
       /\ walletConnectPending' > walletConnectPending =>
             \E c \in Calls :
                /\ connectCalls[c] = "request"
                /\ Returns(c)
                /\ returned' \in {Returned(c, x, "accounts") : x \in Addresses}
                /\ hasConnector]_vars

\* Both hooks have an activation in flight, the one of connectWallet requested
\* by the call that has just returned an account.
C18_Witness ==
    /\ connectPending > 0
    /\ walletConnectPending > 0
    /\ returned.cause = "accounts"
    /\ returned.value \in Addresses
    /\ ~isConnected

----------------------------------------------------------------------------
\* C20: isConnecting is true whenever some connectWallet() call has passed its
\* already-connected check and has not returned, and false when none has.
C20_ConnectingWhileInFlight ==
    isConnecting = (\E c \in Calls : Connecting(c))

----------------------------------------------------------------------------
\* Nothing is under way: the effect has run, every attempt has returned, no
\* activation is pending and the record is not loading.
Quiescent ==
    /\ current >= 1
    /\ \A a \in Attempts : ~InFlight(a)
    /\ connectPending = 0
    /\ ~userData.isLoading

\* C19: with the component mounted, no external connector event and every
\* awaited call settling, resolution comes to rest.  At most one activation is
\* pending, and only while the signal reports unconnected; the signal once
\* connected stays connected, and the effect re-runs only when the signal
\* turns connected, so the hook's own activation re-triggers it at most once;
\* and eventually, for good, no attempt is in flight and loading is false.
C19_Quiesces ==
    /\ [](connectPending > 0 => ~isConnected /\ connectPending = 1)
    /\ [][isConnected => isConnected']_vars
    /\ [][current' # current =>
             /\ current' = current + 1
             /\ current = 0 \/ (~isConnected /\ isConnected')]_vars
    /\ <>[]Quiescent

\* Resolution has come to rest after the hook's own activation re-triggered
\* it: the second attempt has committed and nothing is pending.
C19_Witness ==
    /\ Quiescent
    /\ current = 2
    /\ WrittenBy(2)
    /\ isConnected
    /\ att[1].ready = 1

============================================================================
